---- MODULE Spec2Model ----
(***************************************************************************)
(* The POST /send-email handler of the portfolio e-mail service, in its    *)
(* four source variants:                                                   *)
(*   "smtp"     src/unnamed/part_001  nodemailer, validation, verify,      *)
(*                                    notification + auto-reply            *)
(*   "resend"   src/unnamed/part_000  Resend API, validation, notification *)
(*   "gmail"    src/server.js         nodemailer, no validation            *)
(*   "legacy"   src/unnamed/part_002  nodemailer, no validation            *)
(* A handler runs from one await to the next; each such run is one action. *)
(***************************************************************************)
EXTENDS Integers, Sequences, FiniteSets, TLC

(***************************************************************************)
(* JavaScript values of a JSON request body.  s is the value's content for *)
(* a string and its String() rendering for every other type.               *)
(***************************************************************************)
JsUndefined == [t |-> "undefined", s |-> <<>>]
JsNull == [t |-> "null", s |-> <<>>]
JsString(s) == [t |-> "string", s |-> s]
JsNumber(digits) == [t |-> "number", s |-> digits]
JsBoolean(b) == [t |-> "boolean", s |-> IF b THEN <<"t", "r", "u", "e">> ELSE <<"f", "a", "l", "s", "e">>]
\* String([x1, ..., xn]) joins the elements' renderings with ","
JsArray(joined) == [t |-> "array", s |-> joined]
\* String({}) is "[object Object]"
JsObject == [t |-> "object", s |-> <<"[", "o", "b", "j", "e", "c", "t", " ", "O", "b", "j", "e", "c", "t", "]">>]

\* n copies of the letter "a"
Repeat(n) == [i \in 1..n |-> "a"]

\* !v is false exactly for the truthy values
Truthy(v) ==
    CASE v.t = "undefined" -> FALSE
      [] v.t = "null" -> FALSE
      [] v.t = "string" -> v.s # <<>>
      [] v.t = "number" -> v.s # <<"0">>
      [] v.t = "boolean" -> v.s = <<"t", "r", "u", "e">>
      [] OTHER -> TRUE

\* only strings have .trim(); v.trim() on another truthy value is a TypeError
HasTrim(v) == v.t = "string"

\* \s of a JavaScript regular expression, and the characters trim() strips
IsWhitespace(c) == c \in {" ", "\t", "\n"}

\* String.prototype.trim: s without its leading and trailing whitespace
trim(s) ==
    IF \A i \in 1..Len(s) : IsWhitespace(s[i]) THEN <<>>
    ELSE LET lo == CHOOSE i \in 1..Len(s) :
                       ~IsWhitespace(s[i]) /\ \A j \in 1..(i - 1) : IsWhitespace(s[j])
             back == CHOOSE k \in 1..Len(s) :
                       /\ ~IsWhitespace(s[Len(s) + 1 - k])
                       /\ \A j \in 1..(k - 1) : IsWhitespace(s[Len(s) + 1 - j])
         IN SubSeq(s, lo, Len(s) + 1 - back)

(***************************************************************************)
(* /^[^\s@]+@[^\s@]+\.[^\s@]+$/ as the sequence of its atoms; every atom   *)
(* with plus is "one or more".                                             *)
(***************************************************************************)
EmailPattern ==
    << [cls |-> "notWsAt", plus |-> TRUE],
       [cls |-> "at", plus |-> FALSE],
       [cls |-> "notWsAt", plus |-> TRUE],
       [cls |-> "dot", plus |-> FALSE],
       [cls |-> "notWsAt", plus |-> TRUE] >>

InClass(c, cls) ==
    CASE cls = "notWsAt" -> ~IsWhitespace(c) /\ c # "@"
      [] cls = "at" -> c = "@"
      [] cls = "dot" -> c = "."

\* s from position i on matches the pattern from atom p on, up to the end ($)
RECURSIVE MatchFrom(_, _, _, _)
MatchFrom(pat, s, i, p) ==
    IF p > Len(pat) THEN i > Len(s)
    ELSE IF i > Len(s) THEN FALSE
    ELSE IF ~InClass(s[i], pat[p].cls) THEN FALSE
    ELSE IF pat[p].plus
         THEN MatchFrom(pat, s, i + 1, p) \/ MatchFrom(pat, s, i + 1, p + 1)
         ELSE MatchFrom(pat, s, i + 1, p + 1)

\* RegExp.prototype.test: the argument is converted with String() first
RegexTest(pat, v) == MatchFrom(pat, v.s, 1, 1)

MaxNameLength == 100
MaxMessageLength == 2000

\* one field's rule: threw is the TypeError of calling .trim on a non-string
Checked(errors) == [threw |-> FALSE, errors |-> errors]
Threw == [threw |-> TRUE, errors |-> <<>>]

\* the name rule with the limit compared by >= : a name of exactly 100 is refused
NameCheck_Inclusive(name) ==
    IF ~Truthy(name) THEN Checked(<<"Name is required">>)
    ELSE IF ~HasTrim(name) THEN Threw
    ELSE IF Len(trim(name.s)) = 0 THEN Checked(<<"Name is required">>)
    ELSE IF Len(name.s) >= MaxNameLength
         THEN Checked(<<"Name must be less than 100 characters">>)
    ELSE Checked(<<>>)

\* if (!data.name || data.name.trim().length === 0) ... else if (data.name.length > 100)
NameCheck(name) ==
    IF ~Truthy(name) THEN Checked(<<"Name is required">>)
    ELSE IF ~HasTrim(name) THEN Threw
    ELSE IF Len(trim(name.s)) = 0 THEN Checked(<<"Name is required">>)
    ELSE IF Len(name.s) > MaxNameLength
         THEN Checked(<<"Name must be less than 100 characters">>)
    ELSE Checked(<<>>)

\* if (!data.email || !/^[^\s@]+@[^\s@]+\.[^\s@]+$/.test(data.email))
EmailCheck(email) ==
    IF ~Truthy(email) \/ ~RegexTest(EmailPattern, email)
    THEN Checked(<<"Valid email is required">>)
    ELSE Checked(<<>>)

\* if (!data.message || data.message.trim().length === 0) ... else if (data.message.length > 2000)
MessageCheck(message) ==
    IF ~Truthy(message) THEN Checked(<<"Message is required">>)
    ELSE IF ~HasTrim(message) THEN Threw
    ELSE IF Len(trim(message.s)) = 0 THEN Checked(<<"Message is required">>)
    ELSE IF Len(message.s) > MaxMessageLength
         THEN Checked(<<"Message must be less than 2000 characters">>)
    ELSE Checked(<<>>)

\* validateEmailInput(data): the three rules in source order; a TypeError in
\* one rule abandons the call before the later rules run
validateEmailInput(data) ==
    LET n == NameCheck(data.name)
        e == EmailCheck(data.email)
        m == MessageCheck(data.message)
    IN IF n.threw THEN Threw
       ELSE IF m.threw THEN Threw
       ELSE Checked(n.errors \o e.errors \o m.errors)

(***************************************************************************)
(* Errors, transport outcomes, messages and responses.                     *)
(***************************************************************************)
\* an error object: its code ("none" when it has none) and its message, a
\* sequence of words (hasMessage is FALSE when error.message is undefined)
Error(code, hasMessage, message) == [code |-> code, hasMessage |-> hasMessage, message |-> message]
NoError == Error("none", FALSE, <<>>)

\* String.prototype.includes, on words
Includes(message, words) ==
    \E i \in 1..(Len(message) - Len(words) + 1) :
        SubSeq(message, i, i + Len(words) - 1) = words

\* what a call of the mail transport came to: kind is "pending" while it is
\* awaited, then "ok", "returned" (resolved with an error in the result) or
\* "threw" (rejected with error)
Outcome(kind, error) == [kind |-> kind, error |-> error]
Pending == Outcome("pending", NoError)

\* a call of the transport: op is "verify", "notification" or "ack"
Call(op, to, replyTo) == [op |-> op, to |-> to, replyTo |-> replyTo, outcome |-> Pending]

\* res.status(status).json(body); keys are the body's properties
ValidationResponse(errors) ==
    [status |-> 400, keys |-> {"success", "errors"}, success |-> FALSE,
     errors |-> errors, text |-> ""]
SuccessResponse(message) ==
    [status |-> 200, keys |-> {"success", "message"}, success |-> TRUE,
     errors |-> <<>>, text |-> message]
FailureResponse(status, error) ==
    [status |-> status, keys |-> {"success", "error"}, success |-> FALSE,
     errors |-> <<>>, text |-> error]
\* the bodies of src/server.js, which carry no success property
PlainSuccessResponse ==
    [status |-> 200, keys |-> {"message"}, success |-> FALSE,
     errors |-> <<>>, text |-> "Emails sent successfully!"]
PlainFailureResponse ==
    [status |-> 500, keys |-> {"error"}, success |-> FALSE,
     errors |-> <<>>, text |-> "Error sending email"]

\* what one run of a handler, from one await to the next, does: the position
\* it stops at, the responses it sends and the transport calls it makes
Ran(pc, respond, calls) == [pc |-> pc, respond |-> respond, calls |-> calls]

NotValidated == [ran |-> FALSE, threw |-> FALSE, errors |-> <<>>]
Validated(v) == [ran |-> TRUE, threw |-> v.threw, errors |-> v.errors]

(***************************************************************************)
(* src/unnamed/part_001: nodemailer, validation, verify, two messages      *)
(***************************************************************************)
\* the catch block: the status and text chosen from error.code and
\* error.message; error.message.includes is a TypeError on an undefined message
SmtpCatch(error) ==
    IF error.code = "EAUTH"
    THEN Ran("failed", <<FailureResponse(503,
             "Email authentication failed. Please check email configuration.")>>, <<>>)
    ELSE IF error.code = "EENVELOPE"
    THEN Ran("failed", <<FailureResponse(400,
             "Invalid email address. Please check your email and try again.")>>, <<>>)
    ELSE IF error.code = "ECONNECTION" \/ error.code = "ETIMEDOUT"
    THEN Ran("failed", <<FailureResponse(503,
             "Email service temporarily unavailable. Please try again later.")>>, <<>>)
    ELSE IF ~error.hasMessage
    THEN Ran("escaped", <<>>, <<>>)
    ELSE IF Includes(error.message, <<"environment", "variables">>)
    THEN Ran("failed", <<FailureResponse(503,
             "Server configuration error. Please contact the administrator.")>>, <<>>)
    ELSE Ran("failed", <<FailureResponse(500,
             "Failed to send email. Please try again later.")>>, <<>>)

\* SmtpOnRequest with the environment checked before the input is validated
SmtpOnRequest_ConfigFirst(data, env) ==
    IF ~Truthy(env.EMAIL) \/ ~Truthy(env.EMAIL_PASSWORD)
    THEN SmtpCatch(Error("none", TRUE,
             <<"Email", "environment", "variables", "are", "not", "set">>))
    ELSE LET v == validateEmailInput(data)
         IN IF v.threw THEN Ran("escaped", <<>>, <<>>)
            ELSE IF Len(v.errors) > 0
            THEN Ran("rejected", <<ValidationResponse(v.errors)>>, <<>>)
            ELSE Ran("awaitVerify", <<>>, <<Call("verify", JsUndefined, JsUndefined)>>)

\* SmtpOnRequest without the check of process.env, as in server.js
SmtpOnRequest_NoConfigCheck(data, env) ==
    LET v == validateEmailInput(data)
    IN IF v.threw THEN Ran("escaped", <<>>, <<>>)
       ELSE IF Len(v.errors) > 0 THEN Ran("rejected", <<ValidationResponse(v.errors)>>, <<>>)
       ELSE Ran("awaitVerify", <<>>, <<Call("verify", JsUndefined, JsUndefined)>>)

\* from the request to the await of transporter.verify()
SmtpOnRequest(data, env) ==
    LET v == validateEmailInput(data)
    IN IF v.threw THEN Ran("escaped", <<>>, <<>>)
       ELSE IF Len(v.errors) > 0 THEN Ran("rejected", <<ValidationResponse(v.errors)>>, <<>>)
       ELSE IF ~Truthy(env.EMAIL) \/ ~Truthy(env.EMAIL_PASSWORD)
       THEN SmtpCatch(Error("none", TRUE,
                <<"Email", "environment", "variables", "are", "not", "set">>))
       ELSE Ran("awaitVerify", <<>>, <<Call("verify", JsUndefined, JsUndefined)>>)

\* SmtpOnVerify with the notification send left out
SmtpOnVerify_NoNotification(data, env, outcome) ==
    IF outcome.kind = "threw" THEN SmtpCatch(outcome.error)
    ELSE Ran("awaitAck", <<>>, <<Call("ack", data.email, JsUndefined)>>)

\* from the return of verify() to the await of sendMail(mailOptions)
SmtpOnVerify(data, env, outcome) ==
    IF outcome.kind = "threw" THEN SmtpCatch(outcome.error)
    ELSE Ran("awaitNotification", <<>>, <<Call("notification", env.EMAIL, data.email)>>)

\* SmtpOnNotification with mailError logged and not rethrown
SmtpOnNotification_Swallowed(data, env, outcome) ==
    Ran("awaitAck", <<>>, <<Call("ack", data.email, JsUndefined)>>)

\* from the return of sendMail(mailOptions) to the await of sendMail(replyOptions)
SmtpOnNotification(data, env, outcome) ==
    IF outcome.kind = "threw" THEN SmtpCatch(outcome.error)
    ELSE Ran("awaitAck", <<>>, <<Call("ack", data.email, JsUndefined)>>)

\* from the return of sendMail(replyOptions) to the response; replyError is
\* logged and not rethrown
SmtpOnAck(data, env, outcome) ==
    Ran("responded",
        <<SuccessResponse("Thank you! Your message has been sent successfully.")>>, <<>>)

(***************************************************************************)
(* src/unnamed/part_000: Resend API, validation, notification only         *)
(***************************************************************************)
\* the catch block: one status and one text for every error
ResendCatch(error) ==
    Ran("failed", <<FailureResponse(500, "Failed to send email. Please try again later.")>>, <<>>)

\* from the request to the await of resend.emails.send()
ResendOnRequest(data, env) ==
    LET v == validateEmailInput(data)
    IN IF v.threw THEN Ran("escaped", <<>>, <<>>)
       ELSE IF Len(v.errors) > 0 THEN Ran("rejected", <<ValidationResponse(v.errors)>>, <<>>)
       ELSE IF ~Truthy(env.RESEND_API_KEY)
       THEN ResendCatch(Error("none", TRUE,
                <<"RESEND_API_KEY", "environment", "variable", "is", "not", "set">>))
       ELSE Ran("awaitNotification", <<>>,
                <<Call("notification", JsString(<<"chidiolorunda@gmail.com">>), data.email)>>)

\* from the return of resend.emails.send() to the response; notificationResult
\* is not read
ResendOnNotification(data, env, outcome) ==
    IF outcome.kind = "threw" THEN ResendCatch(outcome.error)
    ELSE Ran("responded", <<SuccessResponse(
             "Thank you! Your message has been sent successfully. I'll get back to you within 24 hours.")>>,
             <<>>)

(***************************************************************************)
(* src/server.js and src/unnamed/part_002: nodemailer, no validation       *)
(***************************************************************************)
PlainCatch(error) == Ran("failed", <<PlainFailureResponse>>, <<>>)

\* from the request to the await of sendMail(mailOptions)
PlainOnRequest(data, env) ==
    Ran("awaitNotification", <<>>, <<Call("notification", env.EMAIL, data.email)>>)

\* PlainOnNotification with a failed send tried again
PlainOnNotification_Retry(data, env, outcome) ==
    IF outcome.kind = "threw"
    THEN Ran("awaitNotification", <<>>, <<Call("notification", env.EMAIL, data.email)>>)
    ELSE Ran("awaitAck", <<>>, <<Call("ack", data.email, JsUndefined)>>)

\* PlainOnNotification with the acknowledgement addressed to the owner
PlainOnNotification_AckToOwner(data, env, outcome) ==
    IF outcome.kind = "threw" THEN PlainCatch(outcome.error)
    ELSE Ran("awaitAck", <<>>, <<Call("ack", env.EMAIL, JsUndefined)>>)

\* from the return of sendMail(mailOptions) to the await of sendMail(replyOptions)
PlainOnNotification(data, env, outcome) ==
    IF outcome.kind = "threw" THEN PlainCatch(outcome.error)
    ELSE Ran("awaitAck", <<>>, <<Call("ack", data.email, JsUndefined)>>)

\* from the return of sendMail(replyOptions) to the response
PlainOnAck(data, env, outcome) ==
    IF outcome.kind = "threw" THEN PlainCatch(outcome.error)
    ELSE Ran("responded", <<PlainSuccessResponse>>, <<>>)

(***************************************************************************)
(* The service: one deployed variant, its environment, and the requests.   *)
(***************************************************************************)
NumRequests == 2
Requests == 1..NumRequests

\* emailLimiter: rateLimit({windowMs: 15 * 60 * 1000, max: 5, message: {error}}),
\* mounted on the route in part_001 and part_000; count is the number of
\* requests of the client in the running window, this one included
RateLimitMax == 5
RateLimited(count) == count > RateLimitMax
RateLimitResponse ==
    [status |-> 429, keys |-> {"error"}, success |-> FALSE,
     errors |-> <<>>, text |-> "Too many email attempts. Please try again later."]

Variants == {"smtp", "resend", "gmail", "legacy"}
ValidatingVariants == {"smtp", "resend"}
LimitedVariants == {"smtp", "resend"}

VARIABLES
    variant,      \* which source file is deployed
    env,          \* process.env: EMAIL, EMAIL_PASSWORD, RESEND_API_KEY
    body,         \* body[r]: req.body of request r
    pc,           \* pc[r]: where the handler of request r stands
    validation,   \* validation[r]: what validateEmailInput came to for r
    sends,        \* sends[r]: the transport calls made for r, in order
    responses,    \* responses[r]: the responses sent for r, in order
    hits          \* the limiter's count of the client's requests in the window

vars == <<variant, env, body, pc, validation, sends, responses, hits>>

\* the handler of the deployed variant, by await point
OnRequest(data) ==
    CASE variant = "smtp" -> SmtpOnRequest(data, env)
      [] variant = "resend" -> ResendOnRequest(data, env)
      [] OTHER -> PlainOnRequest(data, env)

OnVerify(data, outcome) == SmtpOnVerify(data, env, outcome)

OnNotification(data, outcome) ==
    CASE variant = "smtp" -> SmtpOnNotification(data, env, outcome)
      [] variant = "resend" -> ResendOnNotification(data, env, outcome)
      [] OTHER -> PlainOnNotification(data, env, outcome)

OnAck(data, outcome) ==
    CASE variant = "smtp" -> SmtpOnAck(data, env, outcome)
      [] OTHER -> PlainOnAck(data, env, outcome)

(***************************************************************************)
(* The inputs: request bodies, environments and transport outcomes.        *)
(***************************************************************************)
NameValues ==
    { JsUndefined, JsString(<<>>), JsString(<<" ">>), JsString(<<"a">>),
      JsString(Repeat(MaxNameLength)), JsString(Repeat(MaxNameLength + 1)),
      JsNull, JsNumber(<<"7">>) }

EmailValues ==
    { JsUndefined, JsString(<<"a", "@", "a", ".", "a">>), JsString(<<"a", "@", "a">>),
      JsString(<<"a", " ", "@", "a", ".", "a">>), JsNumber(<<"7">>),
      JsArray(<<"a", "@", "a", ".", "a">>) }

MessageValues ==
    { JsUndefined, JsString(<<"\n">>), JsString(<<"a">>),
      JsString(Repeat(MaxMessageLength)), JsString(Repeat(MaxMessageLength + 1)),
      JsBoolean(TRUE), JsObject }

Bodies == [name : NameValues, email : EmailValues, message : MessageValues]
EmptyBody == [name |-> JsUndefined, email |-> JsUndefined, message |-> JsUndefined]

Configured ==
    [EMAIL |-> JsString(<<"owner@example.com">>),
     EMAIL_PASSWORD |-> JsString(<<"app-password">>),
     RESEND_API_KEY |-> JsString(<<"re_key">>)]
Envs ==
    { Configured,
      [Configured EXCEPT !.EMAIL_PASSWORD = JsUndefined],
      [EMAIL |-> JsUndefined, EMAIL_PASSWORD |-> JsUndefined, RESEND_API_KEY |-> JsUndefined] }

\* the codes part_001 tells apart, one it does not, and no code at all
ErrorCodes == {"EAUTH", "EENVELOPE", "ECONNECTION", "ETIMEDOUT", "ESOCKET", "none"}

\* what nodemailer rejects with: an Error with a code and a message, or a
\* value that is no Error and has neither
SmtpErrors ==
    { Error(c, TRUE, <<"Connection", "closed">>) : c \in ErrorCodes }
    \cup { Error("EAUTH", TRUE, <<"Invalid", "login">>),
           Error("none", TRUE, <<"Greeting", "never", "received">>) }
    \cup { Error("none", FALSE, <<>>) }

\* what the Resend client rejects with, and what it resolves with as
\* { data: null, error }
ResendErrors == { Error("none", TRUE, <<"fetch", "failed">>), Error("none", FALSE, <<>>) }
ResendReturnedErrors == { Error("none", TRUE, <<"API", "key", "is", "invalid">>) }

\* the provider accepts mail only from a transport that has its credentials
HasCredentials ==
    IF variant = "resend" THEN Truthy(env.RESEND_API_KEY)
    ELSE Truthy(env.EMAIL) /\ Truthy(env.EMAIL_PASSWORD)

\* what a transport call can come to
Outcomes ==
    (IF HasCredentials THEN {Outcome("ok", NoError)} ELSE {})
    \cup (IF variant = "resend"
          THEN { Outcome("threw", e) : e \in ResendErrors }
               \cup { Outcome("returned", e) : e \in ResendReturnedErrors }
          ELSE { Outcome("threw", e) : e \in SmtpErrors })

(***************************************************************************)
(* Initial states and actions.                                             *)
(***************************************************************************)
\* one request has arrived; the other request slots stay idle
Init ==
    /\ variant \in Variants
    /\ env \in Envs
    /\ \E b \in Bodies : body = [r \in Requests |-> IF r = 1 THEN b ELSE EmptyBody]
    /\ pc = [r \in Requests |-> IF r = 1 THEN "received" ELSE "idle"]
    /\ validation = [r \in Requests |-> NotValidated]
    /\ sends = [r \in Requests |-> <<>>]
    /\ responses = [r \in Requests |-> <<>>]
    /\ hits = 0

\* the awaited call of request r has come to outcome
Settle(calls, outcome) ==
    IF calls = <<>> THEN calls
    ELSE [calls EXCEPT ![Len(calls)].outcome = outcome]

\* request r's handler has run up to its next await, or to its end
Apply(r, ran, settled) ==
    /\ pc' = [pc EXCEPT ![r] = ran.pc]
    /\ responses' = [responses EXCEPT ![r] = @ \o ran.respond]
    /\ sends' = [sends EXCEPT ![r] = settled \o ran.calls]
    /\ UNCHANGED <<variant, env, body>>

\* express passes request r through emailLimiter, where the route has it,
\* and calls the handler unless the limiter has answered
Receive(r) ==
    /\ pc[r] = "received"
    /\ IF variant \in LimitedVariants
       THEN /\ hits' = hits + 1
            /\ IF RateLimited(hits + 1)
               THEN /\ Apply(r, Ran("limited", <<RateLimitResponse>>, <<>>), sends[r])
                    /\ UNCHANGED validation
               ELSE /\ validation' = [validation EXCEPT ![r] =
                           Validated(validateEmailInput(body[r]))]
                    /\ Apply(r, OnRequest(body[r]), sends[r])
       ELSE /\ UNCHANGED hits
            /\ validation' = [validation EXCEPT ![r] = NotValidated]
            /\ Apply(r, OnRequest(body[r]), sends[r])

\* transporter.verify() settles
VerifyReturns(r) ==
    /\ pc[r] = "awaitVerify"
    /\ \E o \in Outcomes : Apply(r, OnVerify(body[r], o), Settle(sends[r], o))
    /\ UNCHANGED <<validation, hits>>

\* the send of the notification settles
NotificationReturns(r) ==
    /\ pc[r] = "awaitNotification"
    /\ \E o \in Outcomes : Apply(r, OnNotification(body[r], o), Settle(sends[r], o))
    /\ UNCHANGED <<validation, hits>>

\* the send of the acknowledgement settles
AckReturns(r) ==
    /\ pc[r] = "awaitAck"
    /\ \E o \in Outcomes : Apply(r, OnAck(body[r], o), Settle(sends[r], o))
    /\ UNCHANGED <<validation, hits>>

Next ==
    \E r \in Requests :
        \/ Receive(r)
        \/ VerifyReturns(r)
        \/ NotificationReturns(r)
        \/ AckReturns(r)

Spec == Init /\ [][Next]_vars

\* every call of the handler and every transport call comes to its end
FairSpec == Init /\ [][Next]_vars /\ WF_vars(Next)

\* every request slot holds a request; the handlers run interleaved
ConcurrentBodies ==
    { [name |-> JsString(<<"a">>), email |-> JsString(<<"a", "@", "a", ".", "a">>),
       message |-> JsString(<<"a">>)],
      [name |-> JsString(<<"a">>), email |-> JsString(<<"b", "@", "a", ".", "a">>),
       message |-> JsString(<<"a">>)],
      [name |-> JsString(<<"a">>), email |-> JsString(<<"a", "@", "a">>),
       message |-> JsString(<<"a">>)] }

InitConcurrent ==
    /\ variant \in Variants
    /\ env \in Envs
    /\ body \in [Requests -> ConcurrentBodies]
    /\ pc = [r \in Requests |-> "received"]
    /\ validation = [r \in Requests |-> NotValidated]
    /\ sends = [r \in Requests |-> <<>>]
    /\ responses = [r \in Requests |-> <<>>]
    /\ hits \in {0, RateLimitMax - 1}

SpecConcurrent == InitConcurrent /\ [][Next]_vars

(***************************************************************************)
(* Vocabulary of the properties.                                           *)
(***************************************************************************)
\* the submission passes validation: the Validator returns the empty list
Valid(data) ==
    LET v == validateEmailInput(data) IN ~v.threw /\ v.errors = <<>>

\* the handler of r has ended, with or without a response
Terminal(r) == pc[r] \in {"rejected", "failed", "responded", "escaped"}

\* the positions in sends[r] of the calls of one kind
CallsOf(r, op) == {i \in 1..Len(sends[r]) : sends[r][i].op = op}

\* a settled call that did not succeed
Failed(call) == call.outcome.kind \in {"threw", "returned"}

\* a response of status 200 whose body is {success: true, message: <non-empty>}
IsSuccess(resp) ==
    /\ resp.status = 200
    /\ resp.keys = {"success", "message"}
    /\ resp.success
    /\ resp.text # ""

\* a response whose body is {success: false, error: <text>}
IsFailure(resp) ==
    /\ resp.keys = {"success", "error"}
    /\ ~resp.success

(***************************************************************************)
(* C1: a notification send is attempted only for a submission that passes  *)
(* validation, in every variant.                                           *)
(***************************************************************************)
C1_NotificationOnlyIfValid ==
    \A r \in Requests : CallsOf(r, "notification") # {} => Valid(body[r])

(***************************************************************************)
(* C2: for a valid submission whose notification send succeeded, the       *)
(* terminal response is 200 with success:true, whatever the acknowledgement*)
(* send came to.                                                           *)
(***************************************************************************)
C2_AckOutcomeNeverChangesResponse ==
    \A r \in Requests :
        ( /\ Valid(body[r])
          /\ Terminal(r)
          /\ \E i \in CallsOf(r, "notification") : sends[r][i].outcome.kind = "ok" )
        => /\ Len(responses[r]) = 1
           /\ IsSuccess(responses[r][1])

(***************************************************************************)
(* C3: within one request an acknowledgement send is attempted only after  *)
(* the notification send has completed successfully, and never once the    *)
(* notification send has failed.                                           *)
(***************************************************************************)
C3_AckOnlyAfterNotificationSucceeded ==
    \A r \in Requests :
        /\ \A i \in CallsOf(r, "ack") :
               \E j \in CallsOf(r, "notification") :
                   j < i /\ sends[r][j].outcome.kind = "ok"
        /\ (\E j \in CallsOf(r, "notification") : Failed(sends[r][j]))
               => CallsOf(r, "ack") = {}

\* an acknowledgement has been attempted after the notification went out
C3_Witness ==
    \E r \in Requests :
        /\ CallsOf(r, "ack") # {}
        /\ \E j \in CallsOf(r, "notification") : sends[r][j].outcome.kind = "ok"

(***************************************************************************)
(* C4: whenever the Validator returns a non-empty error list the handler   *)
(* ends in rejected with the single response 400 {success:false, errors},  *)
(* errors being the Validator's list in its order, and calls the transport *)
(* not at all, whatever the environment.                                   *)
(***************************************************************************)
C4_InvalidIsRejectedWithoutTransport ==
    \A r \in Requests :
        ( /\ validation[r].ran
          /\ ~validation[r].threw
          /\ validation[r].errors # <<>> )
        => /\ pc[r] = "rejected"
           /\ responses[r] = <<ValidationResponse(validateEmailInput(body[r]).errors)>>
           /\ sends[r] = <<>>

\* a submission with several invalid fields was rejected on a server that
\* has no mail credentials
C4_Witness ==
    \E r \in Requests :
        /\ pc[r] = "rejected"
        /\ validation[r].ran
        /\ Len(validation[r].errors) >= 2
        /\ ~HasCredentials
        /\ Len(responses[r]) = 1

(***************************************************************************)
(* C5: validateEmailInput checks all three fields: its result holds exactly*)
(* one error for each offending field and none for a valid one, in the     *)
(* order name, email, message.                                             *)
(***************************************************************************)
Blank(s) == \A i \in 1..Len(s) : IsWhitespace(s[i])

\* a field of the data model: text, required, within its length
NameOffending(v) == ~(v.t = "string" /\ ~Blank(v.s) /\ Len(v.s) <= MaxNameLength)
EmailOffending(v) == ~(v.t = "string" /\ MatchFrom(EmailPattern, v.s, 1, 1))
MessageOffending(v) == ~(v.t = "string" /\ ~Blank(v.s) /\ Len(v.s) <= MaxMessageLength)

\* the field an error string is about: 1 name, 2 email, 3 message
FieldOfError(e) ==
    CASE e \in {"Name is required", "Name must be less than 100 characters"} -> 1
      [] e = "Valid email is required" -> 2
      [] OTHER -> 3

ErrorsAbout(errors, f) == {i \in 1..Len(errors) : FieldOfError(errors[i]) = f}

OneErrorPerOffendingField(data, errors) ==
    /\ Cardinality(ErrorsAbout(errors, 1)) = (IF NameOffending(data.name) THEN 1 ELSE 0)
    /\ Cardinality(ErrorsAbout(errors, 2)) = (IF EmailOffending(data.email) THEN 1 ELSE 0)
    /\ Cardinality(ErrorsAbout(errors, 3)) = (IF MessageOffending(data.message) THEN 1 ELSE 0)
    /\ \A i, j \in 1..Len(errors) :
           i < j => FieldOfError(errors[i]) < FieldOfError(errors[j])

C5_OneErrorPerFieldInOrder ==
    \A r \in Requests :
        validation[r].ran =>
            /\ ~validation[r].threw
            /\ OneErrorPerOffendingField(body[r], validation[r].errors)

\* the same, for the bodies whose fields are all absent or strings
TextOnly(data) ==
    \A v \in {data.name, data.email, data.message} : v.t \in {"undefined", "string"}

ValidatorOnTextFields ==
    \A r \in Requests :
        (validation[r].ran /\ TextOnly(body[r])) =>
            /\ ~validation[r].threw
            /\ OneErrorPerOffendingField(body[r], validation[r].errors)

(***************************************************************************)
(* C6: when the notification dispatch fails for a valid submission, the    *)
(* status follows the failure class (authentication 503, connection or     *)
(* timeout 503, envelope 400, unclassified 500) and the body is            *)
(* {success:false, error}, in every variant.                               *)
(***************************************************************************)
StatusOfFailure(error) ==
    CASE error.code = "EAUTH" -> 503
      [] error.code \in {"ECONNECTION", "ETIMEDOUT"} -> 503
      [] error.code = "EENVELOPE" -> 400
      [] OTHER -> 500

C6_StatusFollowsFailureClass ==
    \A r \in Requests :
        \A j \in CallsOf(r, "notification") :
            (Valid(body[r]) /\ Failed(sends[r][j])) =>
                /\ Len(responses[r]) = 1
                /\ IsFailure(responses[r][1])
                /\ responses[r][1].status = StatusOfFailure(sends[r][j].outcome.error)

(***************************************************************************)
(* C7: a valid submission on a transport whose every call succeeds gets    *)
(* 200 {success:true, message:<non-empty>}, with exactly one notification  *)
(* send, made before any acknowledgement send.                             *)
(***************************************************************************)
C7_AllSucceedGives200 ==
    \A r \in Requests :
        ( /\ Valid(body[r])
          /\ HasCredentials
          /\ Terminal(r)
          /\ \A i \in 1..Len(sends[r]) : sends[r][i].outcome.kind = "ok" )
        => /\ Len(responses[r]) = 1
           /\ IsSuccess(responses[r][1])
           /\ Cardinality(CallsOf(r, "notification")) = 1
           /\ \A i \in CallsOf(r, "ack") : \A j \in CallsOf(r, "notification") : j < i

(***************************************************************************)
(* C8: every response carries a success flag that agrees with its status:  *)
(* 200 with success:true and a message, 400/500/503 with success:false, in *)
(* every variant.                                                          *)
(***************************************************************************)
C8_SuccessFlagAgreesWithStatus ==
    \A r \in Requests :
        \A i \in 1..Len(responses[r]) :
            LET resp == responses[r][i]
            IN /\ "success" \in resp.keys
               /\ resp.status = 200 => (resp.success /\ "message" \in resp.keys)
               /\ resp.status \in {400, 500, 503} => ~resp.success

(***************************************************************************)
(* C9: every request gets exactly one response: no error escapes the       *)
(* handler without a response, and no request gets two.                    *)
(***************************************************************************)
C9_ExactlyOneResponse ==
    \A r \in Requests :
        /\ Len(responses[r]) <= 1
        /\ Terminal(r) => Len(responses[r]) = 1

(***************************************************************************)
(* C10: a 200 success response is emitted only if the notification         *)
(* dispatch reported success; a dispatch that raised or returned a failure *)
(* never ends in one.                                                      *)
(***************************************************************************)
C10_SuccessOnlyIfNotificationSucceeded ==
    \A r \in Requests :
        (\E i \in 1..Len(responses[r]) : responses[r][i].status = 200)
        => /\ CallsOf(r, "notification") # {}
           /\ \A j \in CallsOf(r, "notification") : sends[r][j].outcome.kind = "ok"

(***************************************************************************)
(* C11: validateEmailInput is total over untyped input: whatever the       *)
(* fields of the body are (absent, null, number, boolean, array, object),  *)
(* it returns a sequence of error texts and never throws.                  *)
(***************************************************************************)
C11_ValidatorNeverThrows ==
    \A r \in Requests : validation[r].ran => ~validation[r].threw

(***************************************************************************)
(* C12: the two errors of a field exclude each other.  A name that is      *)
(* present, not whitespace-only and longer than 100 is reported with       *)
(* exactly "Name must be less than 100 characters" and never with "Name is *)
(* required"; a message longer than 2000 likewise; no input gets two       *)
(* errors for its name or two for its message.                             *)
(***************************************************************************)
TooLong(v, max) == v.t = "string" /\ ~Blank(v.s) /\ Len(v.s) > max

TextsAbout(errors, f) == {errors[i] : i \in ErrorsAbout(errors, f)}

C12_LengthErrorExcludesRequired ==
    \A r \in Requests :
        validation[r].ran =>
            LET errors == validation[r].errors IN
            /\ TooLong(body[r].name, MaxNameLength) =>
                   /\ Cardinality(ErrorsAbout(errors, 1)) = 1
                   /\ TextsAbout(errors, 1) = {"Name must be less than 100 characters"}
            /\ TooLong(body[r].message, MaxMessageLength) =>
                   /\ Cardinality(ErrorsAbout(errors, 3)) = 1
                   /\ TextsAbout(errors, 3) = {"Message must be less than 2000 characters"}
            /\ Cardinality(ErrorsAbout(errors, 1)) <= 1
            /\ Cardinality(ErrorsAbout(errors, 3)) <= 1

\* the same statement over bodies whose fields are absent or text
LengthErrorExcludesRequiredOnTextFields ==
    \A r \in Requests :
        (validation[r].ran /\ TextOnly(body[r])) =>
            LET errors == validation[r].errors IN
            /\ TooLong(body[r].name, MaxNameLength) =>
                   TextsAbout(errors, 1) = {"Name must be less than 100 characters"}
            /\ TooLong(body[r].message, MaxMessageLength) =>
                   TextsAbout(errors, 3) = {"Message must be less than 2000 characters"}
            /\ Cardinality(ErrorsAbout(errors, 1)) <= 1
            /\ Cardinality(ErrorsAbout(errors, 3)) <= 1

(***************************************************************************)
(* C13: the email rule does not depend on the other fields.  For an email  *)
(* that fails the rule and any name and message, the result holds "Valid   *)
(* email is required" exactly once; for an email that passes it, never.    *)
(***************************************************************************)
FailsEmailRule(v) == ~Truthy(v) \/ ~RegexTest(EmailPattern, v)

C13_EmailRuleIndependent ==
    \A r \in Requests :
        validation[r].ran =>
            Cardinality(ErrorsAbout(validation[r].errors, 2))
                = (IF FailsEmailRule(body[r].email) THEN 1 ELSE 0)

\* the same statement over the calls that returned
EmailRuleIndependentWhenReturned ==
    \A r \in Requests :
        (validation[r].ran /\ ~validation[r].threw) =>
            Cardinality(ErrorsAbout(validation[r].errors, 2))
                = (IF FailsEmailRule(body[r].email) THEN 1 ELSE 0)

(***************************************************************************)
(* C14 as stated: with a valid email, validateEmailInput returns the empty *)
(* sequence exactly when the name has length 1..100 and the message has    *)
(* length 1..2000.                                                         *)
(***************************************************************************)
LengthWithin(v, max) == v.t = "string" /\ Len(v.s) \in 1..max

Accepted(r) ==
    validation[r].ran /\ ~validation[r].threw /\ validation[r].errors = <<>>

C14_AcceptedExactlyWithinLengths ==
    \A r \in Requests :
        (validation[r].ran /\ ~FailsEmailRule(body[r].email)) =>
            (Accepted(r) <=> /\ LengthWithin(body[r].name, MaxNameLength)
                             /\ LengthWithin(body[r].message, MaxMessageLength))

(***************************************************************************)
(* C14 amended: with a valid email, validateEmailInput returns the empty   *)
(* sequence exactly when the name is text that is not whitespace-only of   *)
(* length at most 100 and the message is text that is not whitespace-only  *)
(* of length at most 2000; a name of exactly 100 and a message of exactly  *)
(* 2000 are accepted, 101 and 2001 are rejected.                           *)
(***************************************************************************)
C14_AcceptedExactlyNonBlankWithinLengths ==
    \A r \in Requests :
        (validation[r].ran /\ ~FailsEmailRule(body[r].email)) =>
            (Accepted(r) <=> /\ ~NameOffending(body[r].name)
                             /\ ~MessageOffending(body[r].message))

\* a name of exactly 100 and a message of exactly 2000 have been accepted
C14_Witness ==
    \E r \in Requests :
        /\ Accepted(r)
        /\ body[r].name.t = "string" /\ Len(body[r].name.s) = MaxNameLength
        /\ body[r].message.t = "string" /\ Len(body[r].message.s) = MaxMessageLength
        /\ ~FailsEmailRule(body[r].email)

(***************************************************************************)
(* C15 as stated: requests are never deduplicated and do not influence     *)
(* each other.  Each valid request causes its own notification send        *)
(* attempt (here: each one whose configuration is set and whose verify did *)
(* not fail), and two requests with equal bodies and equal transport       *)
(* outcomes get equal responses.                                           *)
(***************************************************************************)
\* r has been answered by the limiter or its handler has ended
Ended(r) == pc[r] = "limited" \/ Terminal(r)

\* the handler's own check of process.env passes (server.js has none)
ConfigurationPasses ==
    CASE variant = "smtp" -> Truthy(env.EMAIL) /\ Truthy(env.EMAIL_PASSWORD)
      [] variant = "resend" -> Truthy(env.RESEND_API_KEY)
      [] OTHER -> TRUE

VerifyPassed(r) == \A i \in CallsOf(r, "verify") : sends[r][i].outcome.kind = "ok"

C15_RequestsIndependent ==
    /\ \A r \in Requests :
           (Valid(body[r]) /\ Ended(r) /\ ConfigurationPasses /\ VerifyPassed(r))
               => Cardinality(CallsOf(r, "notification")) = 1
    /\ \A r1, r2 \in Requests :
           (Ended(r1) /\ Ended(r2) /\ body[r1] = body[r2] /\ sends[r1] = sends[r2])
               => responses[r1] = responses[r2]

(***************************************************************************)
(* C15 amended: requests that emailLimiter admits are never deduplicated   *)
(* and do not influence each other.  Each admitted valid request whose     *)
(* configuration check and verify pass causes its own notification send    *)
(* attempt, and two admitted requests with equal bodies and equal          *)
(* transport outcomes get equal responses; the one state shared between    *)
(* requests is the limiter's count.                                        *)
(***************************************************************************)
C15_AdmittedRequestsIndependent ==
    /\ \A r \in Requests :
           (Valid(body[r]) /\ Terminal(r) /\ ConfigurationPasses /\ VerifyPassed(r))
               => Cardinality(CallsOf(r, "notification")) = 1
    /\ \A r1, r2 \in Requests :
           (Terminal(r1) /\ Terminal(r2) /\ body[r1] = body[r2] /\ sends[r1] = sends[r2])
               => responses[r1] = responses[r2]

\* two requests with the same valid body have each had their own notification
\* sent and their own response
C15_Witness ==
    \E r1, r2 \in Requests :
        /\ r1 # r2
        /\ body[r1] = body[r2] /\ Valid(body[r1])
        /\ pc[r1] = "responded" /\ pc[r2] = "responded"
        /\ CallsOf(r1, "notification") # {} /\ CallsOf(r2, "notification") # {}

(***************************************************************************)
(* C16: no retries.  In one request there is at most one notification send *)
(* attempt and at most one acknowledgement send attempt, whatever the      *)
(* outcomes of the calls.                                                  *)
(***************************************************************************)
C16_NoRetries ==
    \A r \in Requests :
        /\ Cardinality(CallsOf(r, "notification")) <= 1
        /\ Cardinality(CallsOf(r, "ack")) <= 1

\* a request has ended on a failed notification send that was its only one
C16_Witness ==
    \E r \in Requests :
        /\ Terminal(r)
        /\ Cardinality(CallsOf(r, "notification")) = 1
        /\ \A i \in CallsOf(r, "notification") : sends[r][i].outcome.kind = "threw"

(***************************************************************************)
(* C17: every request eventually reaches exactly one of the terminal       *)
(* states Rejected, NotificationFailed or Responded, given that every      *)
(* transport call returns; from then on it makes no send and nothing of it *)
(* changes.                                                                *)
(***************************************************************************)
InTerminalState(r) == pc[r] \in {"rejected", "failed", "responded"}

C17_EveryRequestReachesATerminalState ==
    /\ \A r \in Requests : (pc[r] = "received") ~> InTerminalState(r)
    /\ [][\A r \in Requests :
             InTerminalState(r) =>
                 /\ pc'[r] = pc[r]
                 /\ sends'[r] = sends[r]
                 /\ responses'[r] = responses[r]]_vars

\* the safety half: a request in a terminal state stays as it is
TerminalStateIsFinal ==
    [][\A r \in Requests :
          InTerminalState(r) =>
              /\ pc'[r] = pc[r]
              /\ sends'[r] = sends[r]
              /\ responses'[r] = responses[r]]_vars

(***************************************************************************)
(* C18: the failure body does not leak.  The error text sent to the client *)
(* is one of a fixed set of constant strings, chosen by the failure class  *)
(* alone: two failures of the same class that differ in their internal     *)
(* details get identical responses.                                        *)
(***************************************************************************)
FailureClass(error) ==
    CASE error.code = "EAUTH" -> "authentication"
      [] error.code \in {"ECONNECTION", "ETIMEDOUT"} -> "connection"
      [] error.code = "EENVELOPE" -> "envelope"
      [] OTHER -> "unclassified"

FailureTexts ==
    { "Email authentication failed. Please check email configuration.",
      "Invalid email address. Please check your email and try again.",
      "Email service temporarily unavailable. Please try again later.",
      "Server configuration error. Please contact the administrator.",
      "Failed to send email. Please try again later.",
      "Error sending email" }

\* the handler of r has gone to its catch block with the error of its last call
Caught(r) ==
    /\ pc[r] \in {"failed", "escaped"}
    /\ sends[r] # <<>>
    /\ sends[r][Len(sends[r])].outcome.kind = "threw"

CaughtError(r) == sends[r][Len(sends[r])].outcome.error

C18_FailureBodyFollowsClass ==
    /\ \A r \in Requests :
           pc[r] = "failed" =>
               \A i \in 1..Len(responses[r]) : responses[r][i].text \in FailureTexts
    /\ \A r1, r2 \in Requests :
           ( /\ Caught(r1) /\ Caught(r2)
             /\ FailureClass(CaughtError(r1)) = FailureClass(CaughtError(r2)) )
               => responses[r1] = responses[r2]

\* the same statement over the errors that carry a message
FailureBodyFollowsClassOfMessages ==
    /\ \A r \in Requests :
           pc[r] = "failed" =>
               \A i \in 1..Len(responses[r]) : responses[r][i].text \in FailureTexts
    /\ \A r1, r2 \in Requests :
           ( /\ Caught(r1) /\ Caught(r2)
             /\ CaughtError(r1).hasMessage /\ CaughtError(r2).hasMessage
             /\ FailureClass(CaughtError(r1)) = FailureClass(CaughtError(r2)) )
               => responses[r1] = responses[r2]

(***************************************************************************)
(* C19: validateEmailInput accepts an email exactly when the whole string  *)
(* is: one or more characters that are neither whitespace nor "@", one     *)
(* "@", one or more such characters, ".", one or more such characters.  An *)
(* absent or empty email, one with no "@" or several, one with whitespace, *)
(* one with no "." after the "@": each yields "Valid email is required".   *)
(***************************************************************************)
\* the shape, said without the pattern: no whitespace, exactly one "@", not
\* in first place, and a "." after it that is neither next to it nor last
Shape(s) ==
    /\ \A k \in 1..Len(s) : ~IsWhitespace(s[k])
    /\ Cardinality({k \in 1..Len(s) : s[k] = "@"}) = 1
    /\ \E i \in 2..Len(s) :
           /\ s[i] = "@"
           /\ \E j \in (i + 2)..(Len(s) - 1) : s[j] = "."

C19_EmailAcceptedExactlyOnShape ==
    \A r \in Requests :
        validation[r].ran =>
            Cardinality(ErrorsAbout(validation[r].errors, 2))
                = (IF Shape(body[r].email.s) THEN 0 ELSE 1)

\* the pattern and the shape agree on every string of up to MaxEmailLength
\* characters over a letter, "@", "." and a space
MaxEmailLength == 5
EmailAlphabet == {"a", "@", ".", " "}
EmailStrings == UNION {[1..n -> EmailAlphabet] : n \in 0..MaxEmailLength}

PatternIsTheShape ==
    \A s \in EmailStrings :
        (EmailCheck(JsString(s)).errors = <<>>) <=> Shape(s)

(***************************************************************************)
(* C20: in every variant a notification message is addressed to the        *)
(* service owner the deployment is configured with and has its reply-to    *)
(* set to the email field of the submission being handled, never another   *)
(* request's; an acknowledgement message is addressed to that same email.  *)
(***************************************************************************)
\* process.env.EMAIL, or the address written into part_000
OwnerAddress ==
    IF variant = "resend" THEN JsString(<<"chidiolorunda@gmail.com">>) ELSE env.EMAIL

C20_MessagesAddressedPerRequest ==
    \A r \in Requests :
        \A i \in 1..Len(sends[r]) :
            /\ sends[r][i].op = "notification" =>
                   /\ sends[r][i].to = OwnerAddress
                   /\ sends[r][i].replyTo = body[r].email
            /\ sends[r][i].op = "ack" => sends[r][i].to = body[r].email

\* two requests with different emails are in flight together, each with its
\* notification and its acknowledgement handed to the transport
C20_Witness ==
    \E r1, r2 \in Requests :
        /\ body[r1].email # body[r2].email
        /\ \A r \in {r1, r2} :
               /\ CallsOf(r, "notification") # {}
               /\ CallsOf(r, "ack") # {}

(***************************************************************************)
(* C21: in part_001 the transport is verified before any message is sent.  *)
(* If transporter.verify() fails, neither the notification nor the         *)
(* acknowledgement send is attempted, and the handler responds with the    *)
(* failure status classified from the verify error, exactly as for a       *)
(* notification failure.                                                   *)
(***************************************************************************)
Sends(r) == CallsOf(r, "notification") \cup CallsOf(r, "ack")

VerifiedBeforeAnySend(r) ==
    \A j \in Sends(r) :
        \E i \in CallsOf(r, "verify") : i < j /\ sends[r][i].outcome.kind = "ok"

C21_VerifyFailureStopsAndIsClassified ==
    \A r \in Requests :
        variant = "smtp" =>
            /\ VerifiedBeforeAnySend(r)
            /\ \A i \in CallsOf(r, "verify") :
                   sends[r][i].outcome.kind = "threw" =>
                       /\ Sends(r) = {}
                       /\ Len(responses[r]) = 1
                       /\ IsFailure(responses[r][1])
                       /\ responses[r][1].status
                              = StatusOfFailure(sends[r][i].outcome.error)

\* the same statement over the verify errors that carry a message
VerifyFailureStopsAndIsClassifiedOfMessages ==
    \A r \in Requests :
        variant = "smtp" =>
            /\ VerifiedBeforeAnySend(r)
            /\ \A i \in CallsOf(r, "verify") :
                   sends[r][i].outcome.kind = "threw" =>
                       /\ Sends(r) = {}
                       /\ sends[r][i].outcome.error.hasMessage =>
                              /\ Len(responses[r]) = 1
                              /\ IsFailure(responses[r][1])
                              /\ responses[r][1].status
                                     = StatusOfFailure(sends[r][i].outcome.error)
                              /\ responses[r]
                                     = SmtpOnNotification(body[r], env, sends[r][i].outcome).respond

====
